---- MODULE Spec2Model ----
(***************************************************************************)
(* Model of the sequence builder of qegnv (Experiment in                   *)
(* qegnv/experiment/base_experiment.py): the command list, the sweep       *)
(* vector resolution (update_loop), the shared measurement fields and the  *)
(* execution of an experiment against the runtime and the two microwave    *)
(* sources.                                                                *)
(*                                                                         *)
(* Numbers: sweep vectors are sequences of integers.  A Python true        *)
(* division a / b is kept exact as a reduced fraction <<n, d>>, d > 0.     *)
(* None is modelled by a value outside the domain of the field.            *)
(***************************************************************************)
EXTENDS Integers, Sequences, FiniteSets, TLC

(***************************************************************************)
(* Bounds of the model.                                                    *)
(***************************************************************************)
MaxVal == 2
VecLen == 2
MaxCmds == 2
MaxPolls == 2
MaxAvg == 2

(***************************************************************************)
(* Program constants (defaults of ConfigNV.load_default, in ns).           *)
(***************************************************************************)
x180_len_NV == 500
meas_len_1 == 600
initialization_len_1 == 3000
ClockNs == 4

NoneInt == 0 - 1
NoneStr == "None"
NoneVec == [kind |-> "None", vec |-> << >>]

(***************************************************************************)
(* Inputs.  A sweep vector argument is an ndarray or a plain list.         *)
(***************************************************************************)
Vals == (0 - MaxVal)..MaxVal
Vecs == [1..VecLen -> Vals]
Kinds == {"array", "list"}
VecArgs == [kind : Kinds, vec : Vecs]
Arr(v) == [kind |-> "array", vec |-> v]

Dot(a, b) ==
  LET RECURSIVE S(_)
      S(i) == IF i = 0 THEN 0 ELSE a[i] * b[i] + S(i - 1)
  IN S(Len(a))

AllZero(v) == \A i \in 1..Len(v) : v[i] = 0

ScalarMul(k, v) == [i \in 1..Len(v) |-> k * v[i]]

\* np.array(length) // 4 : elementwise floor division, always an ndarray
FloorDivVec(a, q) == Arr([i \in 1..Len(a.vec) |-> a.vec[i] \div q])

Abs(x) == IF x < 0 THEN 0 - x ELSE x

RECURSIVE Gcd(_, _)
Gcd(a, b) == IF b = 0 THEN a ELSE Gcd(b, a % b)

\* Python true division of two integers, b # 0, as a reduced fraction
TrueDiv(a, b) ==
  LET g == Gcd(Abs(a), Abs(b))
      s == IF b < 0 THEN 0 - 1 ELSE 1
  IN << (s * a) \div g, (s * b) \div g >>

One == << 1, 1 >>
MinusOne == << 0 - 1, 1 >>
FracOfInt(k) == << k, 1 >>

\* np.all(var_vec == 0): elementwise for an ndarray; for a plain list
\* the comparison list == 0 is the single value False
NpAllEqZero(a) == IF a.kind = "array" THEN AllZero(a.vec) ELSE FALSE

\* the while loop of update_loop, lines 267-273: returns the first div >= 0,
\* or fails by indexing past the end of the vector
RECURSIVE ScanDiv(_, _, _)
ScanDiv(two, v, idx) ==
  IF idx > Len(v) THEN [outcome |-> "IndexError", ret |-> MinusOne]
  ELSE LET div == IF v[idx] # 0 THEN TrueDiv(two[idx], v[idx]) ELSE MinusOne
       IN IF div[1] < 0 THEN ScanDiv(two, v, idx + 1)
          ELSE IF div[1] > 0 THEN [outcome |-> "return", ret |-> div]
          ELSE [outcome |-> "ValueError_inconsistent", ret |-> MinusOne]

\* the test with the right-hand side of the identity forgotten
CollinearLoose(a, b) == Dot(a, b) * Dot(b, a) # 0

Collinear(a, b) == Dot(a, b) * Dot(b, a) = Dot(a, a) * Dot(b, b)

\* update_loop storing each vector it accepts
update_loop_overwrite(cur, a) ==
  IF NpAllEqZero(a)
    THEN [outcome |-> "ValueError_zeros", ret |-> MinusOne, var |-> cur]
  ELSE IF cur = NoneVec
    THEN [outcome |-> "return", ret |-> One, var |-> a]
  ELSE IF Collinear(a.vec, cur.vec)
    THEN LET r == ScanDiv(cur.vec, a.vec, 1)
         IN [outcome |-> r.outcome, ret |-> r.ret, var |-> a]
  ELSE [outcome |-> "ValueError_inconsistent", ret |-> MinusOne, var |-> cur]

\* Experiment.update_loop: outcome, returned value and the sweep vector after
update_loop(cur, a) ==
  IF NpAllEqZero(a)
    THEN [outcome |-> "ValueError_zeros", ret |-> MinusOne, var |-> cur]
  ELSE IF cur = NoneVec
    THEN [outcome |-> "return", ret |-> One, var |-> a]
  ELSE IF Collinear(a.vec, cur.vec)
    THEN LET r == ScanDiv(cur.vec, a.vec, 1)
         IN [outcome |-> r.outcome, ret |-> r.ret, var |-> cur]
  ELSE [outcome |-> "ValueError_inconsistent", ret |-> MinusOne, var |-> cur]

Raised(o) == o # "return"

(***************************************************************************)
(* Arguments of the add_* methods: a scalar, a vector (ndarray or list)    *)
(* or None.                                                                *)
(***************************************************************************)
Scalar(n) == [kind |-> "scalar", val |-> n]
NoneArg == [kind |-> "None"]
IsIterable(x) == x.kind \in Kinds

Times4(a) == [kind |-> a.kind, vec |-> ScalarMul(ClockNs, a.vec)]

\* the Experiment object: the fields set by __init__, lines 76-108, and
\* the outcome of the call in progress
NewExperiment ==
  [var_vec |-> NoneVec, commands |-> << >>, use_fixed |-> FALSE,
   measure_len |-> NoneInt, measure_mode |-> NoneStr,
   measure_channel |-> NoneStr, initialize |-> FALSE, measure_delay |-> 0,
   laser_channel |-> NoneStr, x_axis_scale |-> One, outcome |-> "return"]

Raise(s, o) == [s EXCEPT !.outcome = o]
\* the command put at the head of the list
AppendCmdFront(s, c) == [s EXCEPT !.commands = << c >> \o @]

AppendCmd(s, c) == [s EXCEPT !.commands = Append(@, c)]

\* the three branches of add_pulse and add_cw_drive, lines 130-140 and
\* 153-163: base holds the fields set before the branch
\* A field of a command holds values of one type: where command["length"]
\* is assigned an ndarray (line 133 and 156, length // 4 on an ndarray), the
\* command holds it in the field length_vec.
SweepBranches(s, base, amplitude, length) ==
  IF IsIterable(amplitude) THEN
    LET r == update_loop(s.var_vec, amplitude)
        s1 == [s EXCEPT !.var_vec = r.var]
    IN IF Raised(r.outcome) THEN Raise(s1, r.outcome)
       ELSE IF length.kind = "list"
         THEN Raise([s1 EXCEPT !.use_fixed = TRUE], "TypeError")
       ELSE IF length.kind = "array"
         THEN AppendCmd([s1 EXCEPT !.use_fixed = TRUE],
                [type |-> base.type, element |-> base.element,
                 name |-> base.name, cycle |-> base.cycle, scale |-> r.ret,
                 length_vec |-> FloorDivVec(length, ClockNs).vec])
       ELSE AppendCmd([s1 EXCEPT !.use_fixed = TRUE],
              [type |-> base.type, element |-> base.element,
               name |-> base.name, cycle |-> base.cycle, scale |-> r.ret,
               length |-> length.val \div ClockNs])
  ELSE IF IsIterable(length) THEN
    LET r == update_loop(s.var_vec, FloorDivVec(length, ClockNs))
        s1 == [s EXCEPT !.var_vec = r.var]
    IN IF Raised(r.outcome) THEN Raise(s1, r.outcome)
       ELSE AppendCmd(s1,
              [type |-> base.type, element |-> base.element,
               name |-> base.name, cycle |-> base.cycle, scale |-> r.ret,
               amplitude |-> amplitude.val])
  ELSE AppendCmd(s,
         [type |-> base.type, element |-> base.element,
          name |-> base.name, cycle |-> base.cycle,
          length |-> length.val \div ClockNs, amplitude |-> amplitude.val])

add_pulse(s, name, element, amplitude, length0, cycle) ==
  LET length == IF length0.kind = "None" THEN Scalar(x180_len_NV) ELSE length0
  IN SweepBranches(s, [type |-> "pulse", element |-> element, name |-> name,
                       cycle |-> cycle], amplitude, length)

\* a cw command has no name and no cycle flag: the model fills the two
\* fields with fixed values that the translation of a cw command ignores
add_cw_drive(s, element, length, amplitude) ==
  SweepBranches(s, [type |-> "cw", element |-> element, name |-> "cw",
                    cycle |-> FALSE], amplitude, length)

add_measure_delay(s, length) ==
  [s EXCEPT !.measure_delay =
     (IF length.kind = "None" THEN meas_len_1 ELSE length.val) \div ClockNs]

add_laser(s, mode, channel, length0) ==
  LET length == IF length0.kind = "None" THEN initialization_len_1
                ELSE length0.val
  IN [AppendCmd(s, [type |-> "laser", mode |-> mode, channel |-> channel,
                    length |-> length \div ClockNs])
        EXCEPT !.laser_channel = channel]

add_align(s) == AppendCmd(s, [type |-> "align"])

add_wait(s, length) ==
  IF IsIterable(length) THEN
    LET r == update_loop(s.var_vec, FloorDivVec(length, ClockNs))
        s1 == [s EXCEPT !.var_vec = r.var]
    IN IF Raised(r.outcome) THEN Raise(s1, r.outcome)
       ELSE AppendCmd(s1, [type |-> "wait", scale |-> r.ret])
  ELSE AppendCmd(s, [type |-> "wait", length |-> length.val \div ClockNs])

\* add_measure taking the latest call as the shared measurement
add_measure_overwrite(s, mode, channel, meas_len0) ==
  LET meas_len == IF meas_len0.kind = "None" THEN meas_len_1
                  ELSE meas_len0.val
  IN [AppendCmd(s, [type |-> "measure", channel |-> channel,
                    mode |-> mode, meas_len |-> meas_len])
        EXCEPT !.measure_len = meas_len, !.measure_mode = mode,
               !.measure_channel = channel]

add_measure(s, mode, channel, meas_len0) ==
  LET meas_len == IF meas_len0.kind = "None" THEN meas_len_1
                  ELSE meas_len0.val
      s1 == AppendCmd(s, [type |-> "measure", channel |-> channel,
                          mode |-> mode, meas_len |-> meas_len])
  IN IF s1.measure_len = NoneInt
       THEN [s1 EXCEPT !.measure_len = meas_len, !.measure_mode = mode,
                       !.measure_channel = channel]
     ELSE IF s1.measure_len # meas_len
       THEN Raise(s1, "ValueError_measure")
     ELSE s1

add_frequency_update(s, element, freq_list) ==
  LET s1 == AppendCmd(s, [type |-> "update_frequency", element |-> element])
      r == update_loop(s1.var_vec, freq_list)
  IN [s1 EXCEPT !.var_vec = r.var, !.outcome = r.outcome]

add_initialization(s, channel) ==
  [s EXCEPT !.initialize = TRUE, !.laser_channel = channel]

(***************************************************************************)
(* Translation of a command into the operations of the runtime program,    *)
(* for the value var of the loop variable at one sweep point.              *)
(***************************************************************************)
NoAmp == 0 - 1
NoDur == 0 - 1
Emit(op, name, target, amplitude, dur) ==
  [op |-> op, name |-> name, target |-> target, amp |-> amplitude,
   dur |-> dur]

\* dict.get(key, default)
Get(c, key, default) == IF key \in DOMAIN c THEN c[key] ELSE default

\* a dash put in front of every name
InvertedAddOnly(name) == "-" \o name

\* lines 313-317: a leading "-" is removed, else one is put in front
Inverted(name) ==
  IF name = "x180" THEN "-x180"
  ELSE IF name = "-x180" THEN "x180"
  ELSE IF name = "x90" THEN "-x90"
  ELSE IF name = "-x90" THEN "x90"
  ELSE IF name = "y180" THEN "-y180"
  ELSE IF name = "-y180" THEN "y180"
  ELSE IF name = "y90" THEN "-y90"
  ELSE "y90"

\* command.get("length", var): the duration of a command whose length is an
\* ndarray is that array, no duration the runtime takes
VecDur == 0 - 2
Length(c, var) ==
  IF "length_vec" \in DOMAIN c THEN VecDur ELSE Get(c, "length", var)

translate_command(c, var, stream, invert) ==
  CASE c.type = "update_frequency" ->
         << Emit("update_frequency", "", c.element, NoAmp, var) >>
    [] c.type = "pulse" ->
         << Emit("play",
                 IF invert /\ c.cycle THEN Inverted(c.name) ELSE c.name,
                 c.element, Get(c, "amplitude", var), Length(c, var)) >>
    [] c.type = "cw" ->
         << Emit("play", "cw", c.element, Get(c, "amplitude", var),
                 Length(c, var)) >>
    [] c.type = "wait" ->
         << Emit("wait", "", "", NoAmp, Get(c, "length", var)) >>
    [] c.type = "laser" ->
         << Emit("play", c.mode, c.channel, NoAmp, c.length) >>
    [] c.type = "measure" ->
         << Emit("measure", c.mode, c.channel, NoAmp, c.meas_len),
            Emit("save", "", stream, NoAmp, NoDur) >>
    [] c.type = "align" ->
         << Emit("align", "", "", NoAmp, NoDur) >>


(***************************************************************************)
(* Sequence presets (NVExperiment).  A preset is the list of calls it      *)
(* makes on the experiment, run in order; an exception raised by a call    *)
(* ends the preset: the calls after it are not made.                       *)
(***************************************************************************)
MHzInv == << 1, 1000000 >>
x180_amp_NV == << 119, 500 >>

SetScale(s, x) == [s EXCEPT !.x_axis_scale = x]

\* one call of a preset, made on s
Invoke(s, c) ==
  CASE c.m = "add_frequency_update" ->
         add_frequency_update(s, c.element, c.freq_list)
    [] c.m = "add_initialization" -> add_initialization(s, c.channel)
    [] c.m = "add_pulse" ->
         add_pulse(s, c.name, c.element, c.amplitude, c.length, c.cycle)
    [] c.m = "add_cw_drive" ->
         add_cw_drive(s, c.element, c.length, c.amplitude)
    [] c.m = "add_align" -> add_align(s)
    [] c.m = "add_wait" -> add_wait(s, c.length)
    [] c.m = "add_laser" -> add_laser(s, c.mode, c.channel, c.length)
    [] c.m = "add_measure" -> add_measure(s, c.mode, c.channel, c.meas_len)
    [] c.m = "add_measure_delay" -> add_measure_delay(s, c.length)
    [] c.m = "x_axis_scale" -> SetScale(s, c.value)

RECURSIVE Run(_, _)
Run(s, calls) ==
  IF calls = << >> \/ Raised(s.outcome) THEN s
  ELSE CHOOSE r \in {Run(t, Tail(calls)) : t \in {Invoke(s, Head(calls))}} :
         TRUE

rabi_sequence(frequency, amplitude, length) ==
  (IF frequency.kind # "None"
     THEN << [m |-> "add_frequency_update", element |-> "NV",
              freq_list |-> frequency] >>
     ELSE << >>)
  \o << [m |-> "add_initialization", channel |-> "AOM1"],
        [m |-> "add_pulse", name |-> "x180", element |-> "NV",
         amplitude |-> amplitude, length |-> length, cycle |-> FALSE],
        [m |-> "add_align"],
        [m |-> "add_laser", mode |-> "laser_ON", channel |-> "AOM1",
         length |-> NoneArg],
        [m |-> "add_measure", mode |-> "readout", channel |-> "SPCM1",
         meas_len |-> NoneArg] >>

setup_cw_odmr(s, f_vec, readout_len, wait_time, amplitude) ==
  Run(s, << [m |-> "add_align"],
            [m |-> "add_frequency_update", element |-> "NV",
             freq_list |-> f_vec],
            [m |-> "add_laser", mode |-> "laser_ON", channel |-> "AOM1",
             length |-> readout_len],
            [m |-> "add_cw_drive", element |-> "NV", length |-> readout_len,
             amplitude |-> amplitude],
            [m |-> "add_wait", length |-> wait_time],
            [m |-> "add_measure", mode |-> "long_readout",
             channel |-> "SPCM1", meas_len |-> readout_len],
            [m |-> "add_measure_delay", length |-> Scalar(1000)],
            [m |-> "x_axis_scale", value |-> MHzInv] >>)

setup_time_rabi(s, t_vec) ==
  Run(s, rabi_sequence(NoneArg, Scalar(1), t_vec)
           \o << [m |-> "x_axis_scale", value |-> FracOfInt(ClockNs)] >>)

setup_power_rabi(s, a_vec) ==
  Run(s, rabi_sequence(NoneArg, a_vec, NoneArg)
           \o << [m |-> "x_axis_scale", value |-> x180_amp_NV] >>)

setup_pulsed_odmr(s, f_vec, amplitude) ==
  Run(s, rabi_sequence(f_vec, amplitude, NoneArg)
           \o << [m |-> "x_axis_scale", value |-> MHzInv] >>)

(***************************************************************************)
(* plot_results: the expressions handed to plt.plot raise TypeError when   *)
(* measure_len is None (None * 1e-9) and when var_vec is a plain list and  *)
(* x_axis_scale is a float (list * float); a list times an int other than  *)
(* 1 is the list repeated, whose length differs from that of the counts    *)
(* (ValueError).  Otherwise the drawing is left to the plotting backend,   *)
(* which succeeds or fails.                                                *)
(***************************************************************************)
plot_results(s) ==
  IF s.measure_len = NoneInt THEN {"TypeError"}
  ELSE IF s.var_vec.kind = "list" /\ s.x_axis_scale[2] # 1 THEN {"TypeError"}
  ELSE IF s.var_vec.kind = "list" /\ s.x_axis_scale # One THEN {"ValueError"}
  ELSE {"ok", "PlotError"}

\* a number times, and divided by, the fraction f
FracMul(x, f) == TrueDiv(x * f[1], f[2])
FracDiv(x, f) == TrueDiv(x * f[2], f[1])

\* plot_results, lines 586-603: the x values of every curve,
\* self.var_vec * self.x_axis_scale
plot_x(s) ==
  [i \in 1..Len(s.var_vec.vec) |-> FracMul(s.var_vec.vec[i], s.x_axis_scale)]

\* DataFitter.load_data, line 25: np.array(var_vec) / x_axis_scale
x_data(s) ==
  [i \in 1..Len(s.var_vec.vec) |-> FracDiv(s.var_vec.vec[i], s.x_axis_scale)]

\* DataFitter.load_data on the results c: None - None raises TypeError
load_data(s, c) ==
  IF c.counts0 = NoneVec \/ c.counts_ref0 = NoneVec
    THEN [outcome |-> "TypeError", x |-> << >>]
    ELSE [outcome |-> "return", x |-> x_data(s)]

\* the checks without the one on the sweep vector
PrecheckCommandsOnly(s) ==
  IF Len(s.commands) = 0 THEN "ValueError_nocommands" ELSE "ok"

\* the checks at the head of execute_experiment and simulate_experiment
Precheck(s) ==
  IF Len(s.commands) = 0 THEN "ValueError_nocommands"
  ELSE IF s.var_vec = NoneVec THEN "ValueError_novar"
  ELSE "ok"

(***************************************************************************)
(* create_experiment.  The program is written out as the operations the    *)
(* runtime performs: the operations ahead of the loops, then for each      *)
(* averaging iteration n and each sweep point i the operations of the      *)
(* loop body, then the save of n.  Each operation is kept with the         *)
(* iteration, the sweep point, the pass (1 for the state |0>, 2 for |1>)   *)
(* and the index src of the command it was translated from (0 for the      *)
(* operations that the program adds itself).                               *)
(***************************************************************************)
wait_between_runs == 500
relaxation_time == 300
wait_for_initialization == 2 * relaxation_time

At(e, n, i, pass, src) ==
  [e |-> e, n |-> n, i |-> i, pass |-> pass, src |-> src]

RECURSIVE Flatten(_)
Flatten(ss) == IF ss = << >> THEN << >> ELSE Head(ss) \o Flatten(Tail(ss))

TagAll(es, n, i, pass, src) ==
  [k \in 1..Len(es) |-> At(es[k], n, i, pass, src)]

\* _reference_counts, lines 345-368
reference_counts(s, stream, pi_amp) ==
  << Emit("wait", "", "", NoAmp, wait_between_runs \div ClockNs),
     Emit("align", "", "", NoAmp, NoDur),
     Emit("play", "x180", "NV", pi_amp, NoDur),
     Emit("align", "", "", NoAmp, NoDur) >>
  \o (IF s.measure_delay > 0
        THEN << Emit("wait", "", s.measure_channel, NoAmp, s.measure_delay),
                Emit("play", "laser_ON", s.laser_channel, NoAmp,
                     s.measure_len) >>
        ELSE << Emit("play", "laser_ON", s.laser_channel, NoAmp, NoDur) >>)
  \o << Emit("measure", s.measure_mode, s.measure_channel, NoAmp,
             s.measure_len),
        Emit("save", "", stream, NoAmp, NoDur),
        Emit("wait", "", s.laser_channel, NoAmp,
             wait_between_runs \div ClockNs) >>

\* lines 420-421 and 428-429: the commands in the order of the list
Sequence(s, var, stream, invert, n, i, pass) ==
  Flatten([j \in 1..Len(s.commands) |->
             TagAll(translate_command(s.commands[j], var, stream, invert),
                    n, i, pass, j)])

\* the second pass left without its reference measurement
LoopBodyNoRef(s, measure_contrast, n, i) ==
  LET var == s.var_vec.vec[i] IN
  Sequence(s, var, "counts0", FALSE, n, i, 1)
  \o TagAll(reference_counts(s, "counts_ref0", 0), n, i, 1, 0)
  \o (IF ~measure_contrast
        THEN Sequence(s, var, "counts1", TRUE, n, i, 2)
        ELSE << >>)

\* lines 417-431: the body of the scanning loop at sweep point i
LoopBody(s, measure_contrast, n, i) ==
  LET var == s.var_vec.vec[i] IN
  Sequence(s, var, "counts0", FALSE, n, i, 1)
  \o TagAll(reference_counts(s, "counts_ref0", 0), n, i, 1, 0)
  \o (IF ~measure_contrast
        THEN Sequence(s, var, "counts1", TRUE, n, i, 2)
               \o TagAll(reference_counts(s, "counts_ref1", 1), n, i, 2, 0)
        ELSE << >>)

\* lines 411-435
create_experiment(s, n_avg, measure_contrast) ==
  (IF s.initialize
     THEN TagAll(<< Emit("play", "laser_ON", s.laser_channel, NoAmp, NoDur),
                    Emit("wait", "", s.laser_channel, NoAmp,
                         wait_for_initialization \div ClockNs) >>,
                 0, 0, 0, 0)
     ELSE << >>)
  \o Flatten([n \in 1..n_avg |->
                Flatten([i \in 1..Len(s.var_vec.vec) |->
                           LoopBody(s, measure_contrast, n, i)])
                \o << At(Emit("save", "", "iteration", NoAmp, NoDur),
                         n, 0, 0, 0) >>])

(***************************************************************************)
(* ConfigNV.  attrs is the JSON-serializable part of the object's __dict__, *)
(* a function from attribute names to values; the three handles (qmm,      *)
(* SG384_1, SG384_2) are the part that is not serializable.  A value       *)
(* carries its Python type; the derived document is the value of the       *)
(* attribute "config".                                                     *)
(***************************************************************************)
PyInt(n) == [t |-> "int", v |-> n]
NpInt(n) == [t |-> "np.int64", v |-> n]
PyStr(x) == [t |-> "str", v |-> x]
PyBool(b) == [t |-> "bool", v |-> b]

IF_freq_NV == 80000000
CfgScalars == {"x180_len_NV", "IF_freq_NV"}
InitializedKey == "_ConfigNV__initialized"
DefaultFile == "config_date.json"
NoAttrs == [k \in {} |-> PyBool(FALSE)]

\* self.__dict__[name] = value
SetItem(a, name, value) ==
  [k \in DOMAIN a \cup {name} |-> IF k = name THEN value ELSE a[k]]

\* self.__initialized: the instance attribute, else the class attribute
IsInitialized(a) ==
  IF InitializedKey \in DOMAIN a THEN a[InitializedKey].v ELSE FALSE

\* update_config, lines 326-334: the operations of the element "NV"
NVOperations == {"cw", "x180", "x90", "-x90", "-y90", "y90", "y180"}

\* the document update_config computes: each entry that reads a scalar
Document(a) ==
  [t |-> "dict", keys |-> "int",
   x180_pulse |-> a["x180_len_NV"],
   y180_pulse |-> a["x180_len_NV"],
   element_NV |-> a["IF_freq_NV"],
   mixer_NV |-> a["IF_freq_NV"]]

\* update_config: reading a scalar that was never set raises AttributeError;
\* the assignment to self.config goes through __setattr__, which stores it
update_config(a) ==
  IF CfgScalars \subseteq DOMAIN a
    THEN [a |-> SetItem(a, "config", Document(a)), outcome |-> "return"]
    ELSE [a |-> a, outcome |-> "AttributeError"]

\* the attribute stored and the document left as it was
setattr_plain(a, name, value) ==
  [a |-> SetItem(a, name, value), outcome |-> "return"]

\* ConfigNV.__setattr__
setattr(a, name, value) ==
  IF IsInitialized(a) /\ name # "config"
    THEN update_config(SetItem(a, name, value))
    ELSE [a |-> SetItem(a, name, value), outcome |-> "return"]

\* load_default, on an object that is not initialized yet
load_default ==
  [k \in CfgScalars |->
     CASE k = "x180_len_NV" -> PyInt(x180_len_NV)
       [] k = "IF_freq_NV" -> PyInt(IF_freq_NV)]

\* json.dump with NumpyEncoder, then json.load: a numpy integer comes back
\* as an int, the integer keys of a dict as strings
JsonValue(x) ==
  IF x.t = "np.int64" THEN PyInt(x.v)
  ELSE IF x.t = "dict" THEN [x EXCEPT !.keys = "str"]
  ELSE x
JsonDump(d) == [k \in DOMAIN d |-> JsonValue(d[k])]

\* the whole __dict__: attrs and, for each connection opened, its handle
HandleNames == << "qmm", "SG384_1", "SG384_2" >>
Handle == [t |-> "handle"]
FullDict(a, h) ==
  LET hs == {HandleNames[i] : i \in {j \in 1..3 : h[j]}}
  IN [k \in DOMAIN a \cup hs |-> IF k \in hs THEN Handle ELSE a[k]]

\* can_save_json: json.dumps raises TypeError on a handle
can_save_json(v) == v.t # "handle"

\* to_dict without the filter
to_dict_all(a, h) == FullDict(a, h)

\* to_dict: the items of __dict__ that can be saved
to_dict(a, h) ==
  LET d == FullDict(a, h)
  IN [k \in {x \in DOMAIN d : can_save_json(d[x])} |-> d[k]]

\* the loop of load and from_dict: self.__dict__[k] = v for each item
RECURSIVE UpdateDict(_, _, _)
UpdateDict(a, d, ks) ==
  IF ks = {} THEN a
  ELSE LET k == CHOOSE x \in ks : TRUE
       IN UpdateDict(SetItem(a, k, d[k]), d, ks \ {k})

\* a sequence of attribute writes, ended by the first one that raises
RECURSIVE Writes(_, _)
Writes(r, ws) ==
  IF ws = << >> \/ r.outcome # "return" THEN r
  ELSE CHOOSE x \in {Writes(t, Tail(ws)) :
                       t \in {setattr(r.a, Head(ws)[1], Head(ws)[2])}} : TRUE

\* load once the file is open and parsed into d: the flag is cleared, the
\* items are stored, the flag is set and filename is written
load_items(a, d, filename) ==
  LET r0 == setattr(a, InitializedKey, PyBool(FALSE)) IN
  IF r0.outcome # "return" THEN r0
  ELSE Writes([a |-> UpdateDict(r0.a, d, DOMAIN d), outcome |-> "return"],
              << << InitializedKey, PyBool(TRUE) >>,
                 << "filename", PyStr(filename) >> >>)

\* the flag cleared before the file is opened
load_flag_first(a, fs, filename) ==
  IF filename \notin DOMAIN fs
    THEN [a |-> SetItem(a, InitializedKey, PyBool(FALSE)),
          outcome |-> "return"]
    ELSE load_items(a, fs[filename], filename)

\* ConfigNV.load: a file that cannot be opened is reported and the call
\* returns
load(a, fs, filename) ==
  IF filename \notin DOMAIN fs THEN [a |-> a, outcome |-> "return"]
  ELSE load_items(a, fs[filename], filename)

\* ConfigNV.save: filename is written first, then the file; a file that
\* cannot be opened for writing is reported and the call returns
save(a, h, fs, filename, writable) ==
  LET name == IF filename = NoneStr THEN a["filename"].v ELSE filename
      r == setattr(a, "filename", PyStr(name))
  IN IF r.outcome # "return" THEN [a |-> r.a, fs |-> fs, outcome |-> r.outcome]
     ELSE IF name \in writable
       THEN [a |-> r.a, outcome |-> "return",
             fs |-> [f \in DOMAIN fs \cup {name} |->
                       IF f = name THEN JsonDump(to_dict(r.a, h))
                       ELSE fs[f]]]
       ELSE [a |-> r.a, fs |-> fs, outcome |-> "return"]

\* ConfigNV.__init__ up to connect: the constants, then filename
init_constants(fs, filename) ==
  IF filename = NoneStr
    THEN [a |-> SetItem(load_default, "filename", PyStr(DefaultFile)),
          outcome |-> "return"]
    ELSE LET r == load(NoAttrs, fs, filename) IN
         IF r.outcome # "return" THEN r
         ELSE setattr(r.a, "filename", PyStr(filename))

\* the connect flags taken as off whatever the caller passes
connect_never(q, s1, s2) == << FALSE, FALSE, FALSE >>

\* ConfigNV.connect: the handles that exist after it, on an object that had
\* none
connect(q, s1, s2) == << q, s1, s2 >>

\* ConfigNV.__init__: connect reads the addresses, update_config the
\* scalars; on an object whose load failed the first of these reads raises
ConfigNV(fs, filename, q, s1, s2) ==
  LET r == init_constants(fs, filename) IN
  IF r.outcome # "return"
    THEN [a |-> r.a, outcome |-> r.outcome,
          conn |-> connect(FALSE, FALSE, FALSE)]
  ELSE IF ~(CfgScalars \subseteq DOMAIN r.a)
    THEN [a |-> r.a, outcome |-> "AttributeError",
          conn |-> connect(FALSE, FALSE, FALSE)]
  ELSE LET u == Writes(update_config(r.a),
                       << << InitializedKey, PyBool(TRUE) >> >>)
       IN [a |-> u.a, outcome |-> u.outcome, conn |-> connect(q, s1, s2)]

\* from_dict storing the items and nothing more
from_dict_stale(d) ==
  [a |-> UpdateDict(NoAttrs, d, DOMAIN d), outcome |-> "return"]

\* ConfigNV.from_dict
from_dict(d) ==
  LET c == ConfigNV([f \in {} |-> NoAttrs], NoneStr, FALSE, FALSE, FALSE)
      r0 == setattr(c.a, InitializedKey, PyBool(FALSE))
      r1 == Writes([a |-> UpdateDict(r0.a, d, DOMAIN d), outcome |-> "return"],
                   << << InitializedKey, PyBool(TRUE) >> >>)
  IN IF r1.outcome # "return" THEN r1 ELSE update_config(r1.a)

VARIABLES var_vec, commands, use_fixed, measure_len, measure_mode,
          measure_channel, initialize, measure_delay, laser_channel,
          x_axis_scale, call,
          qmm_conn, sg1_conn, sg2_conn, sg1_on, sg2_on, qm_open,
          pc, exc, events, frame,
          attrs, files, counts, fit_results

builder == << var_vec, commands, use_fixed, measure_len, measure_mode,
              measure_channel, initialize, measure_delay, laser_channel,
              x_axis_scale >>
hardware == << sg1_on, sg2_on, qm_open >>
conn == << qmm_conn, sg1_conn, sg2_conn >>
running == << pc, exc, events, frame >>
cfgfile == << attrs, files >>
results == << counts, fit_results >>
vars == << var_vec, commands, use_fixed, measure_len, measure_mode,
           measure_channel, initialize, measure_delay, laser_channel,
           x_axis_scale, call,
           qmm_conn, sg1_conn, sg2_conn, sg1_on, sg2_on, qm_open,
           pc, exc, events, frame,
           attrs, files, counts, fit_results >>

\* the Experiment object as a record, at the start of a call
Cur ==
  [var_vec |-> var_vec, commands |-> commands, use_fixed |-> use_fixed,
   measure_len |-> measure_len, measure_mode |-> measure_mode,
   measure_channel |-> measure_channel, initialize |-> initialize,
   measure_delay |-> measure_delay, laser_channel |-> laser_channel,
   x_axis_scale |-> x_axis_scale, outcome |-> "return"]

\* the fields of the object after a call that ended in s
Becomes(s) ==
  /\ var_vec' = s.var_vec
  /\ commands' = s.commands
  /\ use_fixed' = s.use_fixed
  /\ measure_len' = s.measure_len
  /\ measure_mode' = s.measure_mode
  /\ measure_channel' = s.measure_channel
  /\ initialize' = s.initialize
  /\ measure_delay' = s.measure_delay
  /\ laser_channel' = s.laser_channel
  /\ x_axis_scale' = s.x_axis_scale

\* the last call made on the object: its name and how it ended; for a direct
\* update_loop call also its argument, the value returned and the sweep
\* vector before the call; for add_measure the acquisition length asked for
NoCall == [op |-> "none", outcome |-> "none", ret |-> MinusOne,
           arg |-> NoneVec, prev |-> NoneVec, len |-> NoneInt,
           file |-> NoneStr, flags |-> << FALSE, FALSE, FALSE >>,
           name |-> NoneStr, solved |-> << NoneInt, NoneInt >>,
           pair |-> << NoneInt, NoneInt >>, x |-> << >>]
Called(op, s) == [NoCall EXCEPT !.op = op, !.outcome = s.outcome]

\* the locals of an execute_experiment or simulate_experiment call
NoFrame == [measure_contrast |-> TRUE, live_plot |-> TRUE, polls |-> 0,
            fetched |-> FALSE, n_avg |-> 0]

\* no file written yet, no result fetched, no fit made
NoFiles == [f \in {} |-> NoAttrs]
NoCounts == [counts0 |-> NoneVec, counts_ref0 |-> NoneVec,
             counts1 |-> NoneVec, counts_ref1 |-> NoneVec,
             iteration |-> NoneInt]
NoFits == [m \in {} |-> << 0, 0 >>]

\* a new experiment on a configuration that has opened no connection yet
\* (ConfigNV constructed with the connect flags off, as from_dict does);
\* nothing is enabled
Init ==
  /\ var_vec = NewExperiment.var_vec
  /\ commands = NewExperiment.commands
  /\ use_fixed = NewExperiment.use_fixed
  /\ measure_len = NewExperiment.measure_len
  /\ measure_mode = NewExperiment.measure_mode
  /\ measure_channel = NewExperiment.measure_channel
  /\ initialize = NewExperiment.initialize
  /\ measure_delay = NewExperiment.measure_delay
  /\ laser_channel = NewExperiment.laser_channel
  /\ x_axis_scale = NewExperiment.x_axis_scale
  /\ call = NoCall
  /\ qmm_conn = FALSE
  /\ sg1_conn = FALSE
  /\ sg2_conn = FALSE
  /\ sg1_on = FALSE
  /\ sg2_on = FALSE
  /\ qm_open = FALSE
  /\ pc = "idle"
  /\ exc = "none"
  /\ events = << >>
  /\ frame = NoFrame
  /\ attrs = ConfigNV(NoFiles, NoneStr, FALSE, FALSE, FALSE).a
  /\ files = NoFiles
  /\ counts = NoCounts
  /\ fit_results = NoFits

(***************************************************************************)
(* Inputs of the builder calls.                                            *)
(***************************************************************************)
\* the sweep vectors given to the builder calls: the vectors of the example
\* of update_loop, a vector, its double and a vector not collinear with it
SweepVecs == {<< 1, 2, 3 >>, << 2, 4, 6 >>, << 1, 3, 5 >>}
SweepArgs == [kind : Kinds, vec : SweepVecs]
NsArgs == {Times4(a) : a \in SweepArgs}
PulseNames == {"x180", "-x90"}
PulseArgs ==
  {<< Scalar(1), NoneArg >>}
    \cup {<< a, NoneArg >> : a \in SweepArgs}
    \cup {<< Scalar(1), l >> : l \in NsArgs}
CwArgs ==
  {<< Scalar(1), Scalar(16) >>, << Arr(<< 1, 2, 3 >>), Arr(<< 16, 32, 48 >>) >>}
    \cup {<< a, Scalar(16) >> : a \in SweepArgs}
    \cup {<< Scalar(1), l >> : l \in NsArgs}
WaitArgs == {Scalar(16)} \cup NsArgs
MeasModes == {"readout", "long_readout"}
MeasLens == {NoneArg, Scalar(10000)}
DelayArgs == {Scalar(1000)}

\* calls are made one at a time: a builder call starts when no
\* execute_experiment or simulate_experiment call is in progress
Idle == pc = "idle"
CanAdd == Idle /\ Len(commands) < MaxCmds

Do(op, s) ==
  /\ Becomes(s)
  /\ call' = Called(op, s)
  /\ UNCHANGED << cfgfile, results, conn, hardware, running >>

AddPulse ==
  /\ CanAdd
  /\ \E name \in PulseNames, al \in PulseArgs, cycle \in BOOLEAN :
       Do("add_pulse", add_pulse(Cur, name, "NV", al[1], al[2], cycle))

\* add_pulse with the length of the configuration and an amplitude that is
\* fixed or swept over one array
AddAmplitudePulse ==
  /\ CanAdd
  /\ \E name \in PulseNames, cycle \in BOOLEAN,
        a \in {Scalar(1), Arr(<< 1, 2, 3 >>)} :
       Do("add_pulse", add_pulse(Cur, name, "NV", a, NoneArg, cycle))

AddCwDrive ==
  /\ CanAdd
  /\ \E al \in CwArgs :
       Do("add_cw_drive", add_cw_drive(Cur, "NV", al[2], al[1]))

AddMeasureDelay ==
  /\ Idle
  /\ \E l \in DelayArgs : Do("add_measure_delay", add_measure_delay(Cur, l))

AddLaser ==
  /\ CanAdd
  /\ Do("add_laser", add_laser(Cur, "laser_ON", "AOM1", NoneArg))

AddAlign ==
  /\ CanAdd
  /\ Do("add_align", add_align(Cur))

AddWait ==
  /\ CanAdd
  /\ \E l \in WaitArgs : Do("add_wait", add_wait(Cur, l))

AddMeasure ==
  /\ CanAdd
  /\ \E mode \in MeasModes, l \in MeasLens :
       LET s == add_measure(Cur, mode, "SPCM1", l) IN
       /\ Becomes(s)
       /\ call' = [Called("add_measure", s) EXCEPT
                     !.len = IF l.kind = "None" THEN meas_len_1 ELSE l.val]
       /\ UNCHANGED << cfgfile, results, conn, hardware, running >>

AddFrequencyUpdate ==
  /\ CanAdd
  /\ \E f \in SweepArgs :
       Do("add_frequency_update", add_frequency_update(Cur, "NV", f))

AddInitialization ==
  /\ Idle
  /\ Do("add_initialization", add_initialization(Cur, "AOM1"))

\* a direct call of update_loop with argument a
UpdateLoopWith(a) ==
  LET r == update_loop(var_vec, a) IN
  /\ var_vec' = r.var
  /\ call' = [NoCall EXCEPT !.op = "update_loop", !.outcome = r.outcome,
                              !.ret = r.ret, !.arg = a, !.prev = var_vec]
  /\ UNCHANGED << commands, use_fixed, measure_len, measure_mode,
                  measure_channel, initialize, measure_delay, laser_channel,
                  x_axis_scale, conn, hardware, running, cfgfile,
                  results >>

\* update_loop while no sweep vector is registered
Register ==
  /\ Idle
  /\ var_vec = NoneVec
  /\ \E a \in VecArgs : UpdateLoopWith(a)

\* update_loop on a registered sweep vector.  The call leaves the registered
\* vector as it is, so one such call after each registration shows them all.
Resolve ==
  /\ Idle
  /\ var_vec # NoneVec
  /\ call.prev = NoneVec
  /\ \E a \in VecArgs : UpdateLoopWith(a)

(***************************************************************************)
(* The presets, each on the defaults of its optional arguments.            *)
(***************************************************************************)
SetupCwOdmr ==
  /\ CanAdd
  /\ \E f \in SweepArgs :
       Do("setup_cw_odmr",
          setup_cw_odmr(Cur, f, Scalar(10000), Scalar(1000), Scalar(1)))

SetupTimeRabi ==
  /\ CanAdd
  /\ \E t \in NsArgs : Do("setup_time_rabi", setup_time_rabi(Cur, t))

SetupPowerRabi ==
  /\ CanAdd
  /\ \E a \in SweepArgs : Do("setup_power_rabi", setup_power_rabi(Cur, a))

SetupPulsedOdmr ==
  /\ CanAdd
  /\ \E f \in SweepArgs :
       Do("setup_pulsed_odmr", setup_pulsed_odmr(Cur, f, Scalar(1)))

\* ConfigNV.connect: opens the connections asked for; each handle is
\* stored by an attribute write, which regenerates the document
Connect ==
  /\ Idle
  /\ \E qmm \in BOOLEAN, SG1 \in BOOLEAN, SG2 \in BOOLEAN :
       /\ qmm_conn' = (qmm_conn \/ qmm)
       /\ sg1_conn' = (sg1_conn \/ SG1)
       /\ sg2_conn' = (sg2_conn \/ SG2)
       /\ attrs' = IF qmm \/ SG1 \/ SG2 THEN update_config(attrs).a ELSE attrs
       /\ call' = [NoCall EXCEPT !.op = "connect", !.outcome = "return"]
  /\ UNCHANGED << files, results, builder, hardware, running >>

(***************************************************************************)
(* Calls on the configuration: construction, attribute writes, save and    *)
(* load, enable_SG.  One file can be written (the default file name) and   *)
(* one path cannot.                                                        *)
(***************************************************************************)
ReadOnlyPath == "/ro/config.json"
Writable == {DefaultFile}
CfgPaths == Writable \cup {ReadOnlyPath}
ScalarWrites == {NpInt(16)}
UserDocument == [t |-> "dict", keys |-> "int", x180_pulse |-> PyInt(0),
                 y180_pulse |-> PyInt(0), element_NV |-> PyInt(0),
                 mixer_NV |-> PyInt(0)]

CfgCall(op, outcome) == [NoCall EXCEPT !.op = op, !.outcome = outcome]

\* ConfigNV(filename, connect_qmm, connect_SG1, connect_SG2): when the
\* constructor raises there is no new object and the old one stays
CfgConstruct ==
  /\ Idle
  /\ \E f \in CfgPaths \cup {NoneStr}, q \in BOOLEAN, s1 \in BOOLEAN,
        s2 \in BOOLEAN :
       LET r == ConfigNV(files, f, q, s1, s2) IN
       /\ call' = [CfgCall("ConfigNV", r.outcome) EXCEPT
                     !.file = f, !.flags = << q, s1, s2 >>]
       /\ IF r.outcome = "return"
            THEN /\ attrs' = r.a
                 /\ qmm_conn' = r.conn[1]
                 /\ sg1_conn' = r.conn[2]
                 /\ sg2_conn' = r.conn[3]
            ELSE UNCHANGED << attrs, conn >>
  /\ UNCHANGED << files, results, builder, hardware, running >>

\* config.<name> = value
CfgSetAttr ==
  /\ Idle
  /\ \E n \in CfgScalars \cup {"config"} :
       \E v \in IF n = "config" THEN {UserDocument} ELSE ScalarWrites :
         LET r == setattr(attrs, n, v) IN
         /\ attrs' = r.a
         /\ call' = [CfgCall("setattr", r.outcome) EXCEPT !.name = n]
  /\ UNCHANGED << files, results, builder, conn, hardware, running >>

\* config.save(filename)
CfgSave ==
  /\ Idle
  /\ \E f \in CfgPaths \cup {NoneStr} :
       LET r == save(attrs, << qmm_conn, sg1_conn, sg2_conn >>, files, f,
                     Writable) IN
       /\ attrs' = r.a
       /\ files' = r.fs
       /\ call' = [CfgCall("save", r.outcome) EXCEPT !.file = r.a["filename"].v]
  /\ UNCHANGED << results, builder, conn, hardware, running >>

\* config.load(filename)
CfgLoad ==
  /\ Idle
  /\ \E f \in CfgPaths :
       LET r == load(attrs, files, f) IN
       /\ attrs' = r.a
       /\ call' = [CfgCall("load", r.outcome) EXCEPT !.file = f]
  /\ UNCHANGED << files, results, builder, conn, hardware, running >>

\* config.enable_SG(), called directly: reading the attribute of a source
\* that was never connected raises AttributeError
CfgEnableSG ==
  /\ Idle
  /\ IF ~sg1_conn
       THEN /\ UNCHANGED << sg1_on, sg2_on >>
            /\ call' = CfgCall("enable_SG", "AttributeError")
     ELSE IF ~sg2_conn
       THEN /\ sg1_on' = TRUE
            /\ sg2_on' = sg2_on
            /\ call' = CfgCall("enable_SG", "AttributeError")
     ELSE /\ sg1_on' = TRUE
          /\ sg2_on' = TRUE
          /\ call' = [CfgCall("enable_SG", "return") EXCEPT
                        !.flags = << qmm_conn, sg1_conn, sg2_conn >>]
  /\ UNCHANGED << cfgfile, results, builder, conn, qm_open, running >>

(***************************************************************************)
(* execute_experiment and simulate_experiment, one action per step.        *)
(* events lists what the call in progress has done to the runtime and the  *)
(* microwave sources.                                                      *)
(***************************************************************************)
Running(op, outcome) == [NoCall EXCEPT !.op = op, !.outcome = outcome]
Executing == call.op = "execute_experiment"

\* the step raises e: the call ends there
Throw(e) ==
  /\ pc' = "raised"
  /\ exc' = e
  /\ call' = [call EXCEPT !.outcome = e]

Goto(l) ==
  /\ pc' = l
  /\ exc' = exc
  /\ call' = call

\* lines 491-496 and 464-469: the checks, then create_experiment
Start(op, n_avg, measure_contrast, live_plot) ==
  /\ IF Precheck(Cur) # "ok"
       THEN /\ pc' = "raised"
            /\ exc' = Precheck(Cur)
            /\ call' = Running(op, Precheck(Cur))
            /\ events' = << >>
            /\ frame' = [NoFrame EXCEPT
                           !.measure_contrast = measure_contrast,
                           !.live_plot = live_plot]
       ELSE /\ pc' = "built"
            /\ exc' = "none"
            /\ call' = Running(op, "running")
            /\ events' = << "build" >>
            /\ frame' = [NoFrame EXCEPT
                           !.measure_contrast = measure_contrast,
                           !.live_plot = live_plot, !.n_avg = n_avg]
  /\ UNCHANGED << cfgfile, results, builder, conn, hardware >>

\* the program of the call in progress, lines 496 and 469: create_experiment
\* reads the experiment only, and no step of the call changes it
Expt == create_experiment(Cur, frame.n_avg, frame.measure_contrast)

\* the numbers of averaging iterations asked for
NAvgs == {MaxAvg}

ExecuteStart ==
  /\ Idle
  /\ \E n_avg \in NAvgs, mc \in BOOLEAN, live \in BOOLEAN :
       Start("execute_experiment", n_avg, mc, live)

SimulateStart ==
  /\ Idle
  /\ \E n_avg \in NAvgs, mc \in BOOLEAN :
       Start("simulate_experiment", n_avg, mc, FALSE)

\* line 471-474: qmm.simulate, then the plot of the simulated samples
SimulateRun ==
  /\ pc = "built"
  /\ ~Executing
  /\ IF qmm_conn
       THEN /\ events' = Append(events, "simulate")
            /\ \E o \in {"ok", "PlotError"} :
                 IF o = "ok" THEN Goto("returned") ELSE Throw(o)
       ELSE /\ events' = events
            /\ Throw("AttributeError")
  /\ UNCHANGED << cfgfile, results, builder, conn, hardware, frame >>

\* line 499: qmm.open_qm
OpenQM ==
  /\ pc = "built"
  /\ Executing
  /\ IF qmm_conn
       THEN /\ events' = Append(events, "open")
            /\ qm_open' = TRUE
            /\ Goto("opened")
       ELSE /\ events' = events
            /\ qm_open' = qm_open
            /\ Throw("AttributeError")
  /\ UNCHANGED << cfgfile, results, builder, conn, sg1_on, sg2_on, frame >>

\* line 502: config.enable_SG; the attribute of a source that was not
\* connected does not exist
EnableSG ==
  /\ pc = "opened"
  /\ IF ~sg1_conn
       THEN /\ UNCHANGED << events, sg1_on, sg2_on >>
            /\ Throw("AttributeError")
     ELSE IF ~sg2_conn
       THEN /\ events' = Append(events, "enable1")
            /\ sg1_on' = TRUE
            /\ sg2_on' = sg2_on
            /\ Throw("AttributeError")
     ELSE /\ events' = events \o << "enable1", "enable2" >>
          /\ sg1_on' = TRUE
          /\ sg2_on' = TRUE
          /\ Goto("enabled")
  /\ UNCHANGED << cfgfile, results, builder, conn, qm_open, frame >>

\* line 505: qm.execute
Submit ==
  /\ pc = "enabled"
  /\ events' = Append(events, "submit")
  /\ Goto("submitted")
  /\ UNCHANGED << cfgfile, results, builder, conn, hardware, frame >>

\* lines 549-554: the arrays fetched last, one entry per sweep point, are
\* stored; counts1 and counts_ref1 are assigned only when both states were
\* measured
Fetched == Arr([i \in 1..Len(var_vec.vec) |-> i])
\* lines 508-511: the names of the results that are fetched
data_list(measure_contrast) ==
  << "counts0", "counts_ref0" >>
  \o (IF ~measure_contrast THEN << "counts1", "counts_ref1" >> ELSE << >>)
  \o << "iteration" >>

\* the four arrays stored whichever states were measured
StoredAll ==
  [counts0 |-> Arr([i \in 1..Len(var_vec.vec) |-> i]),
   counts_ref0 |-> Arr([i \in 1..Len(var_vec.vec) |-> i]),
   counts1 |-> Arr([i \in 1..Len(var_vec.vec) |-> i]),
   counts_ref1 |-> Arr([i \in 1..Len(var_vec.vec) |-> i]),
   iteration |-> 1]

Stored ==
  [counts0 |-> Fetched, counts_ref0 |-> Fetched,
   counts1 |-> IF frame.measure_contrast THEN counts.counts1 ELSE Fetched,
   counts_ref1 |->
     IF frame.measure_contrast THEN counts.counts_ref1 ELSE Fetched,
   iteration |-> 1]

\* lines 522-538: one round of the live loop, fetch_all then plot_results
LivePoll ==
  /\ pc = "submitted"
  /\ frame.live_plot
  /\ frame.polls < MaxPolls
  /\ events' = Append(events, "fetch")
  /\ \E o \in plot_results(Cur) :
       IF o = "ok"
         THEN /\ frame' = [frame EXCEPT !.polls = @ + 1, !.fetched = TRUE]
              /\ Goto("submitted")
         ELSE /\ frame' = frame
              /\ Throw(o)
  /\ UNCHANGED << cfgfile, results, builder, conn, hardware >>

\* lines 522 and 549-554: the job is no longer processing; the results are
\* stored from the locals that the last round of the loop bound
LiveDone ==
  /\ pc = "submitted"
  /\ frame.live_plot
  /\ IF frame.fetched
       THEN /\ counts' = Stored
            /\ Goto("stored")
       ELSE /\ counts' = counts
            /\ Throw("UnboundLocalError")
  /\ UNCHANGED << cfgfile, fit_results, builder, conn, hardware, events,
                  frame >>

\* lines 541-554: wait_for_all_values, fetch_all, store
WaitForAll ==
  /\ pc = "submitted"
  /\ ~frame.live_plot
  /\ events' = events \o << "wait_for_all", "fetch" >>
  /\ frame' = [frame EXCEPT !.fetched = TRUE]
  /\ counts' = Stored
  /\ Goto("stored")
  /\ UNCHANGED << cfgfile, fit_results, builder, conn, hardware >>

\* the second source left on
DisableSG1Only ==
  /\ pc = "stored"
  /\ events' = Append(events, "disable1")
  /\ sg1_on' = FALSE
  /\ sg2_on' = sg2_on
  /\ Goto("disabled")
  /\ UNCHANGED << cfgfile, results, builder, conn, qm_open, frame >>

\* lines 557-558: disable_SG1, disable_SG2
DisableSG ==
  /\ pc = "stored"
  /\ events' = events \o << "disable1", "disable2" >>
  /\ sg1_on' = FALSE
  /\ sg2_on' = FALSE
  /\ Goto("disabled")
  /\ UNCHANGED << cfgfile, results, builder, conn, qm_open, frame >>

\* lines 560-562: qm.close
CloseQM ==
  /\ pc = "disabled"
  /\ events' = Append(events, "close")
  /\ qm_open' = FALSE
  /\ Goto("closed")
  /\ UNCHANGED << cfgfile, results, builder, conn, sg1_on, sg2_on, frame >>

\* line 564: the final plot_results
FinalPlot ==
  /\ pc = "closed"
  /\ \E o \in plot_results(Cur) :
       IF o = "ok"
         THEN /\ pc' = "returned"
              /\ exc' = exc
              /\ call' = [call EXCEPT !.outcome = "return"]
         ELSE Throw(o)
  /\ UNCHANGED << cfgfile, results, builder, conn, hardware, events,
                  frame >>

\* the call has ended: its locals are gone
Return ==
  /\ pc \in {"returned", "raised"}
  /\ pc' = "idle"
  /\ exc' = "none"
  /\ events' = << >>
  /\ frame' = NoFrame
  /\ call' = call
  /\ UNCHANGED << cfgfile, results, builder, conn, hardware >>

(***************************************************************************)
(* Experiment.save and Experiment.load.  A file of an experiment holds the *)
(* attributes of the object as json.dump writes them, and under "config"   *)
(* the dictionary of the configuration.                                    *)
(***************************************************************************)
ExptFile == "default.json"
ExptPaths == {ExptFile, ReadOnlyPath}

\* an ndarray is written as a list and read back as a list
JsonVec(v) == IF v = NoneVec THEN NoneVec ELSE [kind |-> "list", vec |-> v.vec]

\* the items of the file, lines 625-627
ExptDump(s, c, a, h) ==
  [expt |-> [s EXCEPT !.var_vec = JsonVec(@)],
   counts |-> [counts0 |-> JsonVec(c.counts0),
               counts_ref0 |-> JsonVec(c.counts_ref0),
               counts1 |-> JsonVec(c.counts1),
               counts_ref1 |-> JsonVec(c.counts_ref1),
               iteration |-> c.iteration],
   config |-> JsonDump(to_dict(a, h))]

\* expt.save(filename): a file that cannot be opened for writing is
\* reported and the call returns
ExptSave ==
  /\ Idle
  /\ \E f \in ExptPaths :
       /\ files' = IF f = ExptFile
                     THEN [x \in DOMAIN files \cup {f} |->
                             IF x = f
                               THEN ExptDump(Cur, counts, attrs,
                                             << qmm_conn, sg1_conn,
                                                sg2_conn >>)
                               ELSE files[x]]
                     ELSE files
       /\ call' = [CfgCall("Experiment.save", "return") EXCEPT !.file = f]
  /\ UNCHANGED << attrs, results, builder, conn, hardware, running >>

\* Experiment.load(filename): the object returned takes the place of the
\* experiment at hand; its configuration is a new one, made by from_dict,
\* that holds no handle.  When the file cannot be opened the object returned
\* has no attribute at all and the experiment at hand stays.
ExptLoad ==
  /\ Idle
  /\ \E f \in ExptPaths :
       IF f \in DOMAIN files
         THEN LET r == from_dict(files[f].config) IN
              /\ Becomes(files[f].expt)
              /\ counts' = files[f].counts
              /\ attrs' = r.a
              /\ qmm_conn' = FALSE
              /\ sg1_conn' = FALSE
              /\ sg2_conn' = FALSE
              /\ call' = [CfgCall("Experiment.load", r.outcome) EXCEPT
                            !.file = f]
         ELSE /\ call' = [CfgCall("Experiment.load", "return") EXCEPT
                            !.file = f]
              /\ UNCHANGED << attrs, counts, builder, conn >>
  /\ UNCHANGED << files, fit_results, hardware, running >>

(***************************************************************************)
(* DataFitter.  fit_results maps the name of a model to the pair (params,  *)
(* covariance) of its last successful fit.  A model is the callable given  *)
(* to fit: a function has a __name__, a callable object such as a          *)
(* functools.partial has none (NoneStr).  curve_fit returns a pair or      *)
(* raises; NonePair is (None, None).                                       *)
(***************************************************************************)
NonePair == << NoneInt, NoneInt >>
Models == {"Gaussian", "Lorentzian", "ExpDampedCosine", NoneStr}
Pairs == {<< 1, 1 >>, << 2, 2 >>}

SetFit(fr, name, pair) ==
  [m \in DOMAIN fr \cup {name} |-> IF m = name THEN pair ELSE fr[m]]

\* fit keeping the first result of a model
fit_keep_first(fr, model, solved) ==
  IF solved = NonePair \/ model = NoneStr THEN [fr |-> fr, ret |-> NonePair]
  ELSE IF model \in DOMAIN fr THEN [fr |-> fr, ret |-> solved]
  ELSE [fr |-> SetFit(fr, model, solved), ret |-> solved]

\* DataFitter.fit: solved is what curve_fit returned, NonePair when it
\* raised; reading __name__ of a callable that has none raises inside the
\* try block as well
fit(fr, model, solved) ==
  IF solved = NonePair \/ model = NoneStr THEN [fr |-> fr, ret |-> NonePair]
  ELSE [fr |-> SetFit(fr, model, solved), ret |-> solved]

\* DataFitter.get_fit_results
get_fit_results(fr, name) == IF name \in DOMAIN fr THEN fr[name] ELSE NonePair

Fit ==
  /\ Idle
  /\ \E model \in Models, solved \in Pairs \cup {NonePair} :
       LET r == fit(fit_results, model, solved) IN
       /\ fit_results' = r.fr
       /\ call' = [CfgCall("fit", "return") EXCEPT
                     !.name = model, !.solved = solved, !.pair = r.ret]
  /\ UNCHANGED << cfgfile, counts, builder, conn, hardware, running >>

GetFitResults ==
  /\ Idle
  /\ \E name \in Models \ {NoneStr} :
       call' = [CfgCall("get_fit_results", "return") EXCEPT
                  !.name = name, !.pair = get_fit_results(fit_results, name)]
  /\ UNCHANGED << cfgfile, results, builder, conn, hardware, running >>

\* DataFitter(experiment): a new fitter with an empty cache, then load_data
NewDataFitter ==
  /\ Idle
  /\ \E r \in {load_data(Cur, counts)} :
       /\ call' = [CfgCall("DataFitter", r.outcome) EXCEPT !.x = r.x]
       /\ fit_results' = IF r.outcome = "return" THEN NoFits ELSE fit_results
  /\ UNCHANGED << cfgfile, counts, builder, conn, hardware, running >>

Next ==
  \/ AddPulse
  \/ AddCwDrive
  \/ AddMeasureDelay
  \/ AddLaser
  \/ AddAlign
  \/ AddWait
  \/ AddMeasure
  \/ AddFrequencyUpdate
  \/ AddInitialization

Spec == Init /\ [][Next]_vars

NextLoop ==
  \/ Register
  \/ Resolve

SpecLoop == Init /\ [][NextLoop]_vars

NextExec ==
  \/ Connect
  \/ AddAlign
  \/ AddFrequencyUpdate
  \/ SetupCwOdmr
  \/ SetupTimeRabi
  \/ SetupPowerRabi
  \/ SetupPulsedOdmr
  \/ ExecuteStart
  \/ SimulateStart
  \/ SimulateRun
  \/ OpenQM
  \/ EnableSG
  \/ Submit
  \/ LivePoll
  \/ LiveDone
  \/ WaitForAll
  \/ DisableSG
  \/ CloseQM
  \/ FinalPlot
  \/ Return
  \/ NewDataFitter

SpecExec == Init /\ [][NextExec]_vars

NextCfg ==
  \/ CfgConstruct
  \/ CfgSetAttr
  \/ CfgSave
  \/ CfgLoad

SpecCfg == Init /\ [][NextCfg]_vars

NextSave ==
  \/ Connect
  \/ SetupPowerRabi
  \/ ExecuteStart
  \/ OpenQM
  \/ EnableSG
  \/ Submit
  \/ LivePoll
  \/ LiveDone
  \/ WaitForAll
  \/ DisableSG
  \/ CloseQM
  \/ FinalPlot
  \/ Return
  \/ ExptSave
  \/ ExptLoad
  \/ CfgSave
  \/ CfgLoad

SpecSave == Init /\ [][NextSave]_vars

NextFit ==
  \/ Fit
  \/ GetFitResults

SpecFit == Init /\ [][NextFit]_vars

NextProg ==
  \/ AddAmplitudePulse
  \/ AddMeasureDelay
  \/ AddMeasure
  \/ AddFrequencyUpdate
  \/ AddInitialization
  \/ SimulateStart
  \/ SimulateRun
  \/ Return

SpecProg == Init /\ [][NextProg]_vars

NextConn ==
  \/ CfgConstruct
  \/ Connect
  \/ CfgEnableSG

SpecConn == Init /\ [][NextConn]_vars

(***************************************************************************)
(* Sweep vector resolution, checked under SpecLoop.                        *)
(***************************************************************************)
IsLoopCall == call.op = "update_loop"
Registered == IsLoopCall /\ call.prev # NoneVec

\* v is c times w for some rational c (c = p/q)
IsMultiple(v, w) ==
  \E p \in (0 - MaxVal)..MaxVal, q \in 1..MaxVal :
    \A i \in 1..Len(v) : q * v[i] = p * w[i]

\* C1: when a sweep vector v1 (not all zero) is registered and update_loop is
\* called with v2 = k*v1 for an integer k > 0, the call returns k.
C1_ReturnsK ==
  \A k \in 1..MaxVal :
    (Registered /\ ~AllZero(call.prev.vec)
       /\ call.arg.vec = ScalarMul(k, call.prev.vec))
      => (call.outcome = "return" /\ call.ret = FracOfInt(k))

C3_ZeroRejected ==
  /\ (IsLoopCall /\ AllZero(call.arg.vec)) => Raised(call.outcome)
  /\ var_vec # NoneVec => ~AllZero(var_vec.vec)

(***************************************************************************)
(* The command list, checked under Spec.                                   *)
(***************************************************************************)
AppendedOne ==
  /\ Len(commands') = Len(commands) + 1
  /\ SubSeq(commands', 1, Len(commands)) = commands

\* every action sets call to the call it is a step of, so a step with
\* call'.op = op is a step of op
StepOf(op) == call'.op = op

AppendingCall ==
  \/ StepOf("add_pulse")
  \/ StepOf("add_cw_drive")
  \/ StepOf("add_wait")
  \/ StepOf("add_laser")
  \/ StepOf("add_measure")
  \/ StepOf("add_frequency_update")
  \/ StepOf("add_align")

\* C4 as stated: each successful call of the eight add_* methods, with
\* add_initialization among them, appends exactly one command and leaves the
\* earlier commands unchanged.
C4_EveryAddAppendsOne ==
  [][((AppendingCall \/ StepOf("add_initialization"))
        /\ call'.outcome = "return")
       => AppendedOne]_vars

\* C4 amended: each successful call of add_pulse, add_cw_drive, add_wait,
\* add_laser, add_measure, add_frequency_update and add_align appends exactly
\* one command and leaves the earlier commands unchanged and in order;
\* add_initialization appends no command and leaves the list unchanged.
C4_AppendsOne ==
  [][/\ (AppendingCall /\ call'.outcome = "return") => AppendedOne
     /\ StepOf("add_initialization") => commands' = commands]_vars

C4_Witness ==
  /\ Len(commands) >= 2
  /\ commands[1].type # commands[2].type
  /\ call.op \in {"add_pulse", "add_measure"}
  /\ call.outcome = "return"
  /\ initialize
\* the value the translation emits for the swept field of command c
SweptValue(c, var) ==
  LET e == translate_command(c, var, "counts0_st", FALSE)[1]
  IN IF c.type = "wait" \/ "amplitude" \in DOMAIN c THEN e.dur ELSE e.amp

\* C5: for a command whose amplitude or duration was given as a vector, the
\* value emitted at each sweep point is the scale factor that update_loop
\* returned for that vector times the loop variable.
C5_ScaleApplied ==
  \A i \in 1..Len(commands) :
    "scale" \in DOMAIN commands[i] =>
      \A j \in 1..Len(var_vec.vec) :
        LET var == var_vec.vec[j]
            scale == commands[i].scale
        IN SweptValue(commands[i], var) * scale[2] = scale[1] * var

\* C6: when a measurement length is already set, add_measure with another
\* length raises the inconsistency error, add_measure with the same length
\* returns, and in both cases measure_len, measure_mode and measure_channel
\* keep the values of the first call.
C6_MeasureLenShared ==
  [][(StepOf("add_measure") /\ measure_len # NoneInt) =>
       /\ call'.len # measure_len => call'.outcome = "ValueError_measure"
       /\ call'.len = measure_len => call'.outcome = "return"
       /\ measure_len' = measure_len
       /\ measure_mode' = measure_mode
       /\ measure_channel' = measure_channel]_vars

C6_Witness ==
  /\ call.op = "add_measure"
  /\ call.outcome = "ValueError_measure"
  /\ call.len # measure_len
  /\ measure_mode # commands[Len(commands)].mode

\* C7: in every reachable state all measure commands of the command list
\* have the same acquisition length, which is measure_len.
C7_OneMeasureLen ==
  \A i \in 1..Len(commands) :
    commands[i].type = "measure" => commands[i].meas_len = measure_len
(***************************************************************************)
(* Execution, checked under SpecExec.                                      *)
(***************************************************************************)
PrecheckErrors == {"ValueError_nocommands", "ValueError_novar"}

\* C8: execute_experiment and simulate_experiment called with an empty
\* command list or without a sweep vector raise ValueError before a program
\* is built, a session opened, a source enabled or a program submitted, and
\* leave the builder state unchanged.
C8_PrecheckFirst ==
  [][((StepOf("execute_experiment") \/ StepOf("simulate_experiment"))
        /\ Idle /\ (Len(commands) = 0 \/ var_vec = NoneVec))
       => /\ pc' = "raised"
          /\ exc' \in PrecheckErrors
          /\ events' = << >>
          /\ UNCHANGED << cfgfile, results, builder, hardware >>]_vars

C8_Witness ==
  /\ Executing
  /\ pc = "raised"
  /\ exc = "ValueError_novar"
  /\ Len(commands) > 0
  /\ qmm_conn /\ sg1_conn /\ sg2_conn

FetchEvents == {"fetch", "wait_for_all"}
IsCore(e) == e \notin FetchEvents
Pos(e) == CHOOSE i \in 1..Len(events) : events[i] = e
Occurred(e) == \E i \in 1..Len(events) : events[i] = e

\* C9: an execute_experiment call that completes has opened the session,
\* enabled the sources, submitted the program, fetched results, disabled the
\* sources and closed the session, in this order; the sources are on while
\* the submitted program runs, and they are off when the session is closed.
C9_FixedOrder ==
  /\ (Executing /\ pc = "returned") =>
       /\ SelectSeq(events, IsCore) =
            << "build", "open", "enable1", "enable2", "submit", "disable1",
               "disable2", "close" >>
       /\ Occurred("fetch")
       /\ \A i \in 1..Len(events) :
            events[i] \in FetchEvents =>
              (Pos("submit") < i /\ i < Pos("disable1"))
  /\ (Executing /\ pc = "submitted") => (sg1_on /\ sg2_on /\ qm_open)
  /\ (Executing /\ pc \in {"closed", "returned"}) =>
       (~sg1_on /\ ~sg2_on /\ ~qm_open)

C9_Witness ==
  /\ Executing
  /\ pc = "returned"
  /\ frame.live_plot
  /\ frame.polls = MaxPolls

\* C10: when an execute_experiment call that has enabled the microwave
\* sources ends, by returning or by raising, it has disabled them.
C10_DisableReached ==
  (Executing /\ pc \in {"returned", "raised"}
     /\ Occurred("enable1") /\ Occurred("enable2"))
    => (Occurred("disable1") /\ Occurred("disable2"))
(***************************************************************************)
(* The configuration object, checked under SpecCfg and SpecConn.           *)
(***************************************************************************)
IsCfgCall(op) == call.op = op /\ call.outcome = "return"

ConstructedFrom(f) == IsCfgCall("ConfigNV") /\ call.file = f
ConstantsLoaded(f) == \A k \in CfgScalars : attrs[k] = files[f][k]
Handles == << qmm_conn, sg1_conn, sg2_conn >>

\* C12 as stated: constructing a ConfigNV with only a filename (the connect
\* flags left at their default, True) loads the persisted constants and
\* opens no connection.
C12_NoConnection ==
  \A f \in CfgPaths :
    (ConstructedFrom(f) /\ call.flags = << TRUE, TRUE, TRUE >>)
      => ConstantsLoaded(f) /\ Handles = << FALSE, FALSE, FALSE >>

\* C12, amended: constructing with a filename loads the persisted constants,
\* and the connections that exist afterwards are exactly those whose connect
\* flag was true.
C12_ConnectsAsFlagged ==
  \A f \in CfgPaths :
    ConstructedFrom(f) => ConstantsLoaded(f) /\ Handles = call.flags

\* a configuration constructed from a file that holds a constant other than
\* the default, with one connection switched off
C12_Witness ==
  /\ ConstructedFrom(DefaultFile)
  /\ attrs["x180_len_NV"] = PyInt(16)
  /\ call.flags = << TRUE, FALSE, TRUE >>
  /\ Handles = << TRUE, FALSE, TRUE >>

\* C13: enable_SG enables every microwave source that was connected and
\* skips, without raising, every source that was not, whatever connect flags
\* the configuration was constructed with.
C13_EnableSkipsUnconnected ==
  call.op = "enable_SG"
    => /\ call.outcome = "return"
       /\ sg1_conn => sg1_on
       /\ sg2_conn => sg2_on

LoadedFrom(f) ==
  /\ IsCfgCall("load") \/ IsCfgCall("ConfigNV")
  /\ call.file = f
  /\ f \in DOMAIN files
HandleKeys == {HandleNames[i] : i \in 1..3}

\* C14 as stated: saving a ConfigNV and loading the saved file gives a
\* configuration in which every serializable scalar constant has its saved
\* value and in which the handles of the runtime manager and of the
\* instrument drivers are absent.
C14_RoundTripNoHandles ==
  \A f \in CfgPaths :
    LoadedFrom(f)
      => ConstantsLoaded(f) /\ Handles = << FALSE, FALSE, FALSE >>

\* C14, amended: save writes every scalar constant with its value, as an
\* int, and writes no handle; load gives every scalar constant the value the
\* file holds and leaves the handles of the object as they were.
C14_RoundTrip ==
  [][/\ (StepOf("save") /\ call'.file \in Writable)
          => /\ \A k \in CfgScalars :
                  /\ files'[call'.file][k].v = attrs[k].v
                  /\ files'[call'.file][k].t = "int"
             /\ HandleKeys \cap DOMAIN files'[call'.file] = {}
     /\ (StepOf("load") /\ call'.file \in DOMAIN files)
          => /\ \A k \in CfgScalars : attrs'[k] = files[call'.file][k]
             /\ Handles' = Handles]_vars

\* a file saved by a connected configuration was loaded after the constant
\* had been changed: the constant has the saved value again
C14_Witness ==
  /\ LoadedFrom(DefaultFile)
  /\ IsCfgCall("load")
  /\ attrs["IF_freq_NV"] = PyInt(16)
  /\ attrs["x180_len_NV"] = PyInt(x180_len_NV)
  /\ Handles = << TRUE, TRUE, TRUE >>

(***************************************************************************)
(* Saving and loading an experiment, checked under SpecSave.               *)
(***************************************************************************)
ResultNames == {"counts0", "counts_ref0", "counts1", "counts_ref1"}

\* C15: Experiment.save followed by Experiment.load gives an experiment
\* with the same command list, the same sweep vector and the same result
\* arrays, element by element; the document of its configuration is the one
\* update_config computes from the reloaded constants, not the document
\* stored in the file.
C15_ExperimentRoundTrip ==
  [][/\ (StepOf("Experiment.save") /\ call'.file = ExptFile)
          => LET d == files'[ExptFile] IN
             /\ d.expt.commands = commands
             /\ d.expt.var_vec.vec = var_vec.vec
             /\ \A n \in ResultNames : d.counts[n].vec = counts[n].vec
             /\ \A k \in CfgScalars : d.config[k].v = attrs[k].v
     /\ (StepOf("Experiment.load") /\ call'.file \in DOMAIN files)
          => LET d == files[call'.file] IN
             /\ call'.outcome = "return"
             /\ commands' = d.expt.commands
             /\ var_vec'.vec = d.expt.var_vec.vec
             /\ \A n \in ResultNames : counts'[n].vec = d.counts[n].vec
             /\ \A k \in CfgScalars : attrs'[k] = d.config[k]
             /\ attrs'["config"] = Document(attrs')
             /\ attrs'["config"] # d.config["config"]]_vars

\* an experiment with commands, a sweep vector and the results of both
\* states was saved and loaded
C15_Witness ==
  /\ IsCfgCall("Experiment.load")
  /\ call.file \in DOMAIN files
  /\ Len(commands) > 0
  /\ var_vec = [kind |-> "list", vec |-> << 1, 2, 3 >>]
  /\ counts.counts0 = [kind |-> "list", vec |-> << 1, 2, 3 >>]
  /\ counts.counts_ref1 = [kind |-> "list", vec |-> << 1, 2, 3 >>]
  /\ files[call.file].expt.commands = commands
  /\ files[call.file].config["config"].keys = "str"
  /\ attrs["config"].keys = "int"

\* C16: a file that is missing or cannot be written does not make
\* ConfigNV.load, ConfigNV.save, Experiment.save or Experiment.load raise,
\* and ConfigNV.load then leaves every attribute of the configuration, the
\* initialized flag and the document included, as it was.
C16_FailureCaught ==
  [][/\ (StepOf("load") /\ call'.file \notin DOMAIN files)
          => call'.outcome = "return" /\ attrs' = attrs /\ files' = files
     /\ (StepOf("save") /\ call'.file \notin Writable)
          => call'.outcome = "return" /\ files' = files
     /\ (StepOf("Experiment.save") /\ call'.file # ExptFile)
          => call'.outcome = "return" /\ files' = files
     /\ (StepOf("Experiment.load") /\ call'.file \notin DOMAIN files)
          => call'.outcome = "return"]_vars

\* a load of a missing file has returned on an initialized configuration
\* that had been saved under another name
C16_Witness ==
  /\ IsCfgCall("load")
  /\ call.file = ReadOnlyPath
  /\ call.file \notin DOMAIN files
  /\ DefaultFile \in DOMAIN files
  /\ IsInitialized(attrs)
  /\ attrs["config"] = Document(attrs)

Built == pc = "built"
Dual == ~frame.measure_contrast

\* the operations of averaging iteration n at sweep point i, in the order of
\* the program
AtPoint(e, n, i) ==
  LET Here(o) == o.n = n /\ o.i = i IN SelectSeq(e, Here)

\* where each operation comes from: its pass and its command
Origins(ops) == [k \in 1..Len(ops) |-> << ops[k].pass, ops[k].src >>]

RECURSIVE Collapse(_)
Collapse(q) ==
  IF Len(q) < 2 THEN q
  ELSE IF q[1] = q[2] THEN Collapse(Tail(q))
  ELSE << q[1] >> \o Collapse(Tail(q))

OnePass(pass) ==
  [j \in 1..Len(commands) |-> << pass, j >>] \o << << pass, 0 >> >>

\* the operations of the commands: a measure command is a measure and a
\* save, any other command is one operation
OpsOfCommands(ops, pass) ==
  \A j \in 1..Len(commands) :
    LET Mine(o) == o.pass = pass /\ o.src = j
        mine == SelectSeq(ops, Mine)
    IN IF commands[j].type = "measure"
         THEN Len(mine) = 2 /\ mine[1].e.op = "measure"
                /\ mine[2].e.op = "save"
         ELSE Len(mine) = 1

\* the reference measurement: it ends with a measure, a save and a wait
EndsWithReference(ops, pass) ==
  LET Ref(o) == o.pass = pass /\ o.src = 0
      ref == SelectSeq(ops, Ref)
  IN /\ Len(ref) >= 3
     /\ ref[Len(ref) - 2].e.op = "measure"
     /\ ref[Len(ref) - 1].e.op = "save"

\* C18: for each sweep point of each averaging iteration the program emits
\* the commands in the order they were added, then the reference
\* measurement; with measure_contrast=False it then emits all the commands
\* again in the same order and a second reference measurement, and with
\* measure_contrast=True nothing more.
C18_EmissionOrder ==
  Built =>
    \A e \in {Expt} :
      \A n \in 1..frame.n_avg, i \in 1..Len(var_vec.vec) :
        \A ops \in {AtPoint(e, n, i)} :
          /\ Collapse(Origins(ops)) =
               OnePass(1) \o (IF Dual THEN OnePass(2) ELSE << >>)
          /\ OpsOfCommands(ops, 1)
          /\ EndsWithReference(ops, 1)
          /\ Dual => OpsOfCommands(ops, 2) /\ EndsWithReference(ops, 2)

\* a program of two commands built for the measurement of both states
C18_Witness ==
  /\ Built
  /\ Dual
  /\ Len(commands) = 2
  /\ commands[1].type = "update_frequency"
  /\ commands[2].type = "measure"
  /\ Len(AtPoint(Expt, MaxAvg, 3))
       = 2 * (3 + Len(reference_counts(Cur, "", 0)))

BaseNames == {"x180", "x90", "y180", "y90"}
DashedNames == {"-" \o b : b \in BaseNames}
HasDash(name) == name \in DashedNames

\* the name under which the pulse command c is played in the pass
PlayedAs(c, pass, name) ==
  IF pass = 2 /\ c.cycle
    THEN IF HasDash(c.name) THEN c.name = "-" \o name
         ELSE name = "-" \o c.name
    ELSE name = c.name

\* C19: in the second pass exactly the pulse commands with cycle=True are
\* played with inverted polarity (a leading "-" removed, else one put in
\* front); the pulses with cycle=False in the second pass and all pulses in
\* the first pass are played under their own name; inverting a name twice
\* gives the name back.
C19_CycleInverts ==
  /\ Built =>
       \A e \in {Expt} :
         \A k \in 1..Len(e) :
           (e[k].src > 0 /\ commands[e[k].src].type = "pulse")
             => PlayedAs(commands[e[k].src], e[k].pass, e[k].e.name)
  /\ \A name \in BaseNames \cup DashedNames :
       Inverted(Inverted(name)) = name

\* a program for both states with a cycled pulse whose name has a dash and
\* a pulse that is not cycled
C19_Witness ==
  /\ Built
  /\ Dual
  /\ Len(commands) = 2
  /\ commands[1].type = "pulse" /\ commands[1].cycle
  /\ commands[1].name = "-x90"
  /\ commands[2].type = "pulse" /\ ~commands[2].cycle
  /\ \E e \in {Expt} :
       /\ \E k \in 1..Len(e) :
            e[k].pass = 2 /\ e[k].src = 1 /\ e[k].e.name = "x90"
       /\ \E k \in 1..Len(e) :
            e[k].pass = 2 /\ e[k].src = 2 /\ e[k].e.name = commands[2].name


\* the number of values the operations ops save to the stream
Saves(ops, stream) ==
  Cardinality({k \in 1..Len(ops) :
                 ops[k].e.op = "save" /\ ops[k].e.target = stream})

\* C20: for every program submitted to the runtime, each sweep point of
\* each averaging iteration saves exactly one value to the signal stream and
\* exactly one value to the reference stream of each measured state.
C20_OneSavePerPoint ==
  pc = "submitted" =>
    \A e \in {Expt} :
      \A n \in 1..frame.n_avg, i \in 1..Len(var_vec.vec) :
        \A ops \in {AtPoint(e, n, i)} :
          /\ Saves(ops, "counts0") = 1
          /\ Saves(ops, "counts_ref0") = 1
          /\ Dual => /\ Saves(ops, "counts1") = 1
                      /\ Saves(ops, "counts_ref1") = 1

\* the play operations of the program that come from pulse commands
PulsePlays(e) ==
  {k \in 1..Len(e) : e[k].src > 0 /\ commands[e[k].src].type = "pulse"}

\* C21: each of the 8 pulse names that add_pulse documents is an operation
\* of the element NV in the derived configuration, so the name played for a
\* pulse on NV, also for a cycled pulse in the inverted pass, is always an
\* operation of NV.
C21_PulseNamesDefined ==
  /\ Built =>
       \A e \in {Expt} :
         \A k \in PulsePlays(e) :
           e[k].e.target = "NV" => e[k].e.name \in NVOperations
  /\ BaseNames \cup DashedNames \subseteq NVOperations

\* C22: the first update_loop call that returns gives 1 and stores its
\* argument as the sweep vector; no later update_loop call, whether it
\* returns or raises, changes the stored sweep vector.
C22_SweepVectorKept ==
  [][StepOf("update_loop") =>
       IF var_vec = NoneVec
         THEN IF call'.outcome = "return"
                THEN call'.ret = One /\ var_vec' = call'.arg
                ELSE var_vec' = NoneVec
         ELSE var_vec' = var_vec]_vars

\* a later call that returns with a vector other than the stored one
C22_Witness ==
  /\ IsLoopCall
  /\ call.prev # NoneVec
  /\ call.outcome = "return"
  /\ call.arg.vec # call.prev.vec
  /\ var_vec = call.prev

\* the streams the program saves to
SavedStreams(e) == {e[k].e.target : k \in {j \in 1..Len(e) : e[j].e.op = "save"}}

\* the streams the operations of the pass save to
PassStreams(e, pass) ==
  {e[k].e.target :
     k \in {j \in 1..Len(e) : e[j].e.op = "save" /\ e[j].pass = pass}}

Range(f) == {f[x] : x \in DOMAIN f}

\* the streams of the program agree with the results fetched and with the
\* passes
StreamsAsMeasured(e) ==
  /\ SavedStreams(e) \subseteq Range(data_list(frame.measure_contrast))
  /\ frame.measure_contrast =>
       (/\ SavedStreams(e) \subseteq {"counts0", "counts_ref0", "iteration"}
        /\ Range(data_list(TRUE)) = {"counts0", "counts_ref0", "iteration"})
  /\ PassStreams(e, 1) \subseteq {"counts0", "counts_ref0"}
  /\ PassStreams(e, 2) \subseteq {"counts1", "counts_ref1"}

\* C23: with measure_contrast=True execute_experiment measures the first
\* state only: the program saves to the streams counts0, counts_ref0 and
\* iteration only, these are the results fetched, and counts1 and
\* counts_ref1 keep the values they had before the call; with
\* measure_contrast=False the first pass saves to counts0 and counts_ref0
\* and the second pass to counts1 and counts_ref1, never the other way round.
C23_ContrastOnlyFirst ==
  [][/\ (Executing /\ pc \in {"built", "submitted"})
          => (\A e \in {Expt} : StreamsAsMeasured(e))
     /\ (Executing /\ frame.measure_contrast)
          => (/\ counts'.counts1 = counts.counts1
              /\ counts'.counts_ref1 = counts.counts_ref1)
     /\ (Executing /\ pc = "submitted" /\ pc' = "stored" /\ Dual)
          => (/\ counts'.counts1 # NoneVec
              /\ counts'.counts_ref1 # NoneVec)]_vars

\* a run for the first state only, stored after an earlier run for both
\* states had stored counts1 and counts_ref1
C23_Witness ==
  /\ Executing
  /\ pc = "stored"
  /\ frame.measure_contrast
  /\ counts.counts0 # NoneVec
  /\ counts.counts1 # NoneVec
  /\ counts.counts_ref1 # NoneVec

\* the document in a is the one the file f holds, not one that was computed
DocumentOfFile(a, f) ==
  "config" \in DOMAIN a =>
    (f \in DOMAIN files /\ "config" \in DOMAIN files[f]
       /\ a["config"] = files[f]["config"])

\* C24: while a ConfigNV is being constructed, attribute writes do not
\* regenerate the document, on the path of the default constants and on the
\* path that loads a file: at the explicit update_config call at the end of
\* __init__ the object holds no document that was computed before.
C24_NoRegenerationInInit ==
  \A f \in DOMAIN files \cup {NoneStr} :
    \A r \in {init_constants(files, f)} :
      r.outcome = "return" => DocumentOfFile(r.a, f)

\* the numeric fields of the command c that hold a vector
VectorFields(c) == {"length_vec"} \cap DOMAIN c

\* C25: every command has at most one swept field: when add_pulse or
\* add_cw_drive is given vectors for both amplitude and length, no command
\* is stored whose length (or amplitude) is itself a vector; every numeric
\* field stored next to the swept one is a scalar.
C25_OneSweptField ==
  \A i \in 1..Len(commands) : VectorFields(commands[i]) = {}

\* the errors the add_* methods raise on purpose
BuilderErrors ==
  {"ValueError_measure", "ValueError_zeros", "ValueError_inconsistent"}

AddOps ==
  {"add_pulse", "add_cw_drive", "add_wait", "add_laser", "add_measure",
   "add_frequency_update", "add_align", "add_measure_delay",
   "add_initialization"}

\* C26: an add_* call that raises (inconsistent measurement length,
\* non-collinear or all-zero sweep vector) leaves the builder state as it
\* was before the call: command list, sweep vector, use_fixed,
\* measure_len, measure_mode, measure_channel and laser_channel.
C26_RaiseLeavesBuilder ==
  [][(Idle /\ call'.op \in AddOps /\ call'.outcome \in BuilderErrors)
       => UNCHANGED << commands, var_vec, use_fixed, measure_len,
                       measure_mode, measure_channel, laser_channel >>]_vars

\* C27: with a sweep vector registered, update_loop on a vector of the same
\* length either returns a positive factor or raises ValueError; it never
\* ends with another failure such as an index past the end of the vector,
\* also for negative multiples of the registered vector and for vectors
\* with zero entries.
C27_ReturnsOrValueError ==
  Registered =>
    \/ call.outcome = "return" /\ call.ret[1] > 0 /\ call.ret[2] > 0
    \/ call.outcome \in {"ValueError_zeros", "ValueError_inconsistent"}

\* the durations in nanoseconds that the calls of SpecProg and the
\* configuration supply
NsValues ==
  {x180_len_NV, wait_between_runs, wait_for_initialization}
    \cup {l.val : l \in DelayArgs}
    \cup (IF measure_len = NoneInt THEN {} ELSE {measure_len})

\* the play and wait operations of the program that are given a duration
Timed(e) ==
  {k \in 1..Len(e) : e[k].e.op \in {"play", "wait"} /\ e[k].e.dur # NoDur}

\* the laser pulse of a reference measurement
IsReferenceLaser(o) ==
  o.src = 0 /\ o.pass > 0 /\ o.e.op = "play" /\ o.e.name = "laser_ON"

\* C28: every duration that the translation passes to play and wait is in
\* clock cycles, a nanosecond value integer-divided by 4, the duration of the
\* laser pulse of the reference measurement under a measure delay included.
C28_DurationsInCycles ==
  Built =>
    \A e \in {Expt} :
      \A k \in Timed(e) :
        /\ e[k].e.dur \in {ns \div ClockNs : ns \in NsValues}
        /\ IsReferenceLaser(e[k]) => e[k].e.dur = measure_len \div ClockNs

\* C29: whenever execute_experiment or simulate_experiment has built a
\* program, the fields the reference measurement uses (measure_len,
\* measure_mode, measure_channel, laser_channel) have all been set by earlier
\* add_measure and add_laser or add_initialization calls.
C29_ReferenceFieldsSet ==
  Built =>
    /\ measure_len # NoneInt
    /\ measure_mode # NoneStr
    /\ measure_channel # NoneStr
    /\ laser_channel # NoneStr

\* C30: the x data that a DataFitter derives from an experiment are the x
\* values the experiment plots for the same results, the sweep vector
\* converted by x_axis_scale in the same direction, for the x_axis_scale of
\* every preset.
C30_SameAxis ==
  (call.op = "DataFitter" /\ call.outcome = "return") => call.x = plot_x(Cur)

====
